---- MODULE Spec2Model ----
(***************************************************************************)
(* A model of the flashcard application: the SM-2 scheduler of             *)
(* utils/sm2.ts (calculateNextReview, isDue) and the study session of the  *)
(* App component (handleRate, startSession, startMixedSession,             *)
(* exitSession, stopSessionTimer).                                         *)
(*                                                                         *)
(* Numbers.  JavaScript numbers are doubles.  The easiness factor only     *)
(* ever moves in steps of one hundredth, so it is kept as an integer       *)
(* number of hundredths (2.5 is 250); Math.round(interval * efactor) is    *)
(* then (interval * efactor + 50) \div 100.  Instants are milliseconds,    *)
(* as Date.now() gives them, counted from an origin shortly before the     *)
(* first instant of the model instead of from 1970.  The cumulative        *)
(* study time, a number of seconds with a fraction in the code, is kept    *)
(* in milliseconds.                                                        *)
(*                                                                         *)
(* React.  A handler reads the state of the render it was created in and   *)
(* queues its updates; the queue is applied, in order, when the handler    *)
(* has returned.  An action below is one whole handler: unprimed           *)
(* variables are the render's values, primed variables the state after     *)
(* the queued updates have been applied.                                   *)
(***************************************************************************)
EXTENDS Integers, Sequences, FiniteSets, TLC

VARIABLES
    selectedChapter,        \* App state: chapter id, MIXED or Null
    progress,               \* App state: term id -> UserProgress or Undefined
    sessionDeck,            \* App state: sequence of Terms
    activeCardIndex,        \* App state: 0-based cursor into sessionDeck
    quizActive,             \* App state
    totalStudyTime,         \* App state, in milliseconds
    sessionStartTime,       \* App state: an instant or NullTime
    currentSessionDuration, \* App state, in milliseconds
    mixedCount,             \* App state: requested size of a mixed session
    storedProgress,         \* localStorage 'cs-flashcards-progress'
    storedTime,             \* localStorage 'cs-flashcards-time'
    alerts,                 \* number of alert() dialogs shown so far
    now,                    \* the clock read by Date.now()
    sessionFailed,          \* history: terms whose last rating of this session was < 3
    unaccounted,            \* history: sessions started whose time saveTime has not added
    lastOp,                 \* history: the last handler that ran, and the view it ran in
    tally,                  \* history: size at its start, ratings and appends of the session
    rated,                  \* history: number of scheduler calls so far
    card,                   \* scheduler harness: the record under review
    lastCall,               \* scheduler harness: arguments of the last call
    lastDue,                \* scheduler harness: arguments and result of the last isDue
    lastCheck,              \* verifier harness: arguments and result of checkAnswerSmart
    quizTerms,              \* Quiz: the terms prop
    questions,              \* Quiz state
    currentIndex,           \* Quiz state: 0-based index of the question shown
    score,                  \* Quiz state
    showSummary,            \* Quiz state
    inputAnswer,            \* Quiz state: the text of the input field
    feedback,               \* Quiz state: "correct", "incorrect" or Null
    selectedOption,         \* Quiz state: an option or NoItem
    timers,                 \* pending setTimeout callbacks of handleOptionClick
    answered,               \* history: questions graded since the quiz was generated
    lastQuizOp,             \* history: the last handler of the Quiz that ran
    lastDistance            \* distance harness: arguments and result of the last call

appVars == <<selectedChapter, progress, sessionDeck, activeCardIndex, quizActive,
             totalStudyTime, sessionStartTime, currentSessionDuration, mixedCount,
             storedProgress, storedTime, alerts, sessionFailed, unaccounted, lastOp,
             tally>>
playVars == <<currentIndex, score, showSummary, inputAnswer, feedback,
              selectedOption, timers, answered, lastQuizOp>>
quizVars == <<lastCheck, lastDistance, quizTerms, questions, playVars>>
harnessVars == <<card, lastCall, lastDue, quizVars>>
vars == <<appVars, harnessVars, now, rated>>

-----------------------------------------------------------------------------
(* Bounds of the model *)

\* terms in the catalog
NumTerms == 2
\* scheduler calls in one behaviour
MaxRated == 3
\* half days the clock may advance
MaxTicks == 2
\* alert() dialogs in one behaviour
MaxAlerts == 1
\* longest interval, in days, a scheduler call of the model may produce
MaxInterval == 20
\* ratings of one term, from its first on, in one behaviour
MaxChain == 6

-----------------------------------------------------------------------------
(* Values *)

Null == "null"
\* null where the other values are instants or durations
NullTime == -1
\* localStorage.getItem of a key never set
NoItem == <<>>
Undefined == [undefined |-> TRUE]
NoCall == [called |-> FALSE]
NoOp == [op |-> "none"]
NoTally == [initial |-> 0, rates |-> 0, appended |-> 0]
MIXED == "MIXED"

\* const oneDay = 24 * 60 * 60 * 1000
oneDay == 24 * 60 * 60 * 1000
HalfDay == oneDay \div 2
\* the first instant of the model; Date.now() is never 0
StartNow == 1000

\* useState(20) of mixedCount
DefaultMixedCount == 20

\* let efactor = 2.5, in hundredths
DefaultEfactor == 250
\* if (efactor < 1.3) efactor = 1.3, in hundredths
MinEfactor == 130

\* type Rating = 0 | 1 | 2 | 3 | 4 | 5
Rating == 0..5

-----------------------------------------------------------------------------
(* utils/sm2.ts *)

\* Math.round of x100 / 100: the nearest integer, a half rounds up
MathRound(x100) == (x100 + 50) \div 100

\* the three locals of calculateNextReview after the seeding of lines 10-19
SeedRepetition(currentProgress) ==
    IF currentProgress = Undefined THEN 0 ELSE currentProgress.repetition
SeedInterval(currentProgress) ==
    IF currentProgress = Undefined THEN 0 ELSE currentProgress.interval
SeedEfactor(currentProgress) ==
    IF currentProgress = Undefined THEN DefaultEfactor ELSE currentProgress.efactor

\* NewInterval leaving the interval of a failed review as it was
NewInterval_FailKeepsInterval(repetition, interval, efactor, rating) ==
    IF rating >= 3
    THEN IF repetition = 0 THEN (IF rating = 5 THEN 4 ELSE 1)
         ELSE IF repetition = 1 THEN 6
         ELSE MathRound(interval * efactor)
    ELSE interval

\* NewInterval without the fixed second step: repetition 1 multiplies too
NewInterval_NoSecondStep(repetition, interval, efactor, rating) ==
    IF rating >= 3
    THEN IF repetition = 0 THEN (IF rating = 5 THEN 4 ELSE 1)
         ELSE MathRound(interval * efactor)
    ELSE 1

\* NewInterval keeping the seeded interval at a first pass below 5
NewInterval_KeepsFirst(repetition, interval, efactor, rating) ==
    IF rating >= 3
    THEN IF repetition = 0 THEN (IF rating = 5 THEN 4 ELSE interval)
         ELSE IF repetition = 1 THEN 6
         ELSE MathRound(interval * efactor)
    ELSE 1

\* NewInterval with the head start given from rating 4 on
NewInterval_HeadStartOnGood(repetition, interval, efactor, rating) ==
    IF rating >= 3
    THEN IF repetition = 0 THEN (IF rating >= 4 THEN 4 ELSE 1)
         ELSE IF repetition = 1 THEN 6
         ELSE MathRound(interval * efactor)
    ELSE 1

\* interval after lines 21-37, from the seeded locals
NewInterval(repetition, interval, efactor, rating) ==
    IF rating >= 3
    THEN IF repetition = 0 THEN (IF rating = 5 THEN 4 ELSE 1)
         ELSE IF repetition = 1 THEN 6
         ELSE MathRound(interval * efactor)
    ELSE 1

\* NewRepetition without the reset of a failed review
NewRepetition_NoReset(repetition, rating) ==
    IF rating >= 3 THEN repetition + 1 ELSE repetition

\* repetition after lines 21-37
NewRepetition(repetition, rating) ==
    IF rating >= 3 THEN repetition + 1 ELSE 0

\* NewEfactor with its floor at 1.0
NewEfactor_FloorAtOne(efactor, rating) ==
    LET e == efactor + (10 - (5 - rating) * (8 + (5 - rating) * 2))
    IN  IF e < 100 THEN 100 ELSE e

\* NewEfactor without the floor of line 41
NewEfactor_NoFloor(efactor, rating) ==
    efactor + (10 - (5 - rating) * (8 + (5 - rating) * 2))

\* efactor after lines 39-41, in hundredths:
\* efactor + (0.1 - (5 - rating) * (0.08 + (5 - rating) * 0.02)), floor 1.3
NewEfactor(efactor, rating) ==
    LET e == efactor + (10 - (5 - rating) * (8 + (5 - rating) * 2))
    IN  IF e < MinEfactor THEN MinEfactor ELSE e

\* NextReviewDate counting the interval in hours
NextReviewDate_InHours(dateNow, interval) == dateNow + (interval * (oneDay \div 24))

\* NextReviewDate adding the days to the milliseconds as they are
NextReviewDate_NoDayFactor(dateNow, interval) == dateNow + interval

\* nextReviewDate of line 43, dateNow being what Date.now() returns there
NextReviewDate(dateNow, interval) == dateNow + (interval * oneDay)

\* calculateNextReview with the efactor updated before the interval is computed
calculateNextReview_EaseFirst(currentProgress, rating, termId, dateNow) ==
    LET repetition == SeedRepetition(currentProgress)
        interval   == SeedInterval(currentProgress)
        efactor    == NewEfactor(SeedEfactor(currentProgress), rating)
        interval2  == NewInterval(repetition, interval, efactor, rating)
    IN  [termId         |-> termId,
         repetition     |-> NewRepetition(repetition, rating),
         interval       |-> interval2,
         efactor        |-> efactor,
         nextReviewDate |-> NextReviewDate(dateNow, interval2)]

calculateNextReview(currentProgress, rating, termId, dateNow) ==
    LET repetition == SeedRepetition(currentProgress)
        interval   == SeedInterval(currentProgress)
        efactor    == SeedEfactor(currentProgress)
        interval2  == NewInterval(repetition, interval, efactor, rating)
    IN  [termId         |-> termId,
         repetition     |-> NewRepetition(repetition, rating),
         interval       |-> interval2,
         efactor        |-> NewEfactor(efactor, rating),
         nextReviewDate |-> NextReviewDate(dateNow, interval2)]

\* isDue due only after the review date, not at it
isDue_Strict(p, dateNow) ==
    IF p = Undefined THEN TRUE ELSE dateNow > p.nextReviewDate

\* isDue with the comparison turned round
isDue_Reversed(p, dateNow) ==
    IF p = Undefined THEN TRUE ELSE dateNow <= p.nextReviewDate

isDue(p, dateNow) ==
    IF p = Undefined THEN TRUE ELSE dateNow >= p.nextReviewDate

-----------------------------------------------------------------------------
(* The clock *)

MaxNow == StartNow + MaxTicks * HalfDay

Tick ==
    /\ now + HalfDay <= MaxNow
    /\ now' = now + HalfDay
    /\ UNCHANGED <<appVars, harnessVars, rated>>

-----------------------------------------------------------------------------
(* Scheduler harness: calculateNextReview applied to bounded inputs, and   *)
(* then to its own results.                                                *)

HarnessTerm == 1

\* the UserProgress records a first call is given
InputRepetitions == 0..3
InputIntervals == {0, 1, 4, 6, 15}
InputEfactors == {MinEfactor, 136, 196, DefaultEfactor, 260}
InputRecords ==
    [termId : {HarnessTerm}, repetition : InputRepetitions,
     interval : InputIntervals, efactor : InputEfactors,
     nextReviewDate : {StartNow}]

AppIdle ==
    /\ selectedChapter = Null
    /\ progress = [t \in 1..NumTerms |-> Undefined]
    /\ sessionDeck = <<>>
    /\ activeCardIndex = 0
    /\ quizActive = FALSE
    /\ totalStudyTime = 0
    /\ sessionStartTime = NullTime
    /\ currentSessionDuration = 0
    /\ mixedCount = DefaultMixedCount
    /\ storedProgress = NoItem
    /\ storedTime = NullTime
    /\ alerts = 0
    /\ sessionFailed = {}
    /\ unaccounted = 0
    /\ tally = NoTally
    /\ lastOp = NoOp

\* no Quiz mounted, no answer checked
\* the state of a Quiz just mounted, lines 102-108, no timer pending
PlayIdle ==
    /\ currentIndex = 0
    /\ score = 0
    /\ showSummary = FALSE
    /\ inputAnswer = <<>>
    /\ feedback = Null
    /\ selectedOption = NoItem
    /\ timers = <<>>
    /\ answered = 0
    /\ lastQuizOp = NoOp

QuizIdle ==
    /\ lastCheck = NoCall
    /\ lastDistance = NoCall
    /\ quizTerms = <<>>
    /\ questions = <<>>
    /\ PlayIdle

InitSM2 ==
    /\ AppIdle
    /\ now = StartNow
    /\ rated = 0
    /\ card \in {Undefined} \cup InputRecords
    /\ lastCall = NoCall
    /\ lastDue = NoCall
    /\ QuizIdle

\* one call calculateNextReview(card, rating, termId), the result kept as card
Review(rating) ==
    /\ rated < MaxRated
    /\ LET r == calculateNextReview(card, rating, HarnessTerm, now)
       IN  /\ NewInterval(SeedRepetition(card), SeedInterval(card),
                          SeedEfactor(card), rating) <= MaxInterval
           /\ card' = r
    /\ lastCall' = [called |-> TRUE, currentProgress |-> card,
                    rating |-> rating, dateNow |-> now]
    /\ rated' = rated + 1
    /\ UNCHANGED <<appVars, now, lastDue, quizVars>>

ReviewRated == \E rating \in Rating : Review(rating)

NextSM2 == ReviewRated \/ Tick

SpecSM2 == InitSM2 /\ [][NextSM2]_vars

\* Rating is a type of the compiler only; at run time the argument is a number
UncheckedRatings == (0 - 2)..7

ReviewUnchecked == \E rating \in UncheckedRatings : Review(rating)

NextSM2Any == ReviewUnchecked \/ Tick

SpecSM2Any == InitSM2 /\ [][NextSM2Any]_vars

\* the last call made once more, with the arguments it had:
\* calculateNextReview(currentProgress, rating, termId), the result kept as card
ReviewRepeated ==
    /\ lastCall.called
    /\ rated < MaxRated
    /\ card' = calculateNextReview(lastCall.currentProgress, lastCall.rating,
                                   HarnessTerm, now)
    /\ lastCall' = [lastCall EXCEPT !.dateNow = now]
    /\ rated' = rated + 1
    /\ UNCHANGED <<appVars, now, lastDue, quizVars>>

NextSM2Repeat == ReviewRated \/ ReviewRepeated \/ Tick

SpecSM2Repeat == InitSM2 /\ [][NextSM2Repeat]_vars

\* a term never rated: its record is absent from the store
InitFresh ==
    /\ AppIdle
    /\ now = StartNow
    /\ rated = 0
    /\ card = Undefined
    /\ lastCall = NoCall
    /\ lastDue = NoCall
    /\ QuizIdle

\* the term rated once more: calculateNextReview(progress[term.id], rating,
\* term.id), the result stored as the record of the term
ReviewStored(rating) ==
    /\ rated < MaxChain
    /\ NewInterval(SeedRepetition(card), SeedInterval(card),
                   SeedEfactor(card), rating) <= MaxInterval
    /\ card' = calculateNextReview(card, rating, HarnessTerm, now)
    /\ lastCall' = [called |-> TRUE, currentProgress |-> card,
                    rating |-> rating, dateNow |-> now]
    /\ rated' = rated + 1
    /\ UNCHANGED <<appVars, now, lastDue, quizVars>>

ReviewFresh == \E rating \in Rating : ReviewStored(rating)

NextFresh == ReviewFresh \/ Tick

SpecFresh == InitFresh /\ [][NextFresh]_vars

-----------------------------------------------------------------------------
(* Properties of the scheduler, over the harness *)

Called == lastCall.called
Prev == lastCall.currentProgress
PrevRepetition == IF Prev = Undefined THEN 0 ELSE Prev.repetition
PrevInterval == IF Prev = Undefined THEN 0 ELSE Prev.interval
PrevEfactor == IF Prev = Undefined THEN DefaultEfactor ELSE Prev.efactor

\* C3, as the specification states it: from {repetition 1, interval 6,
\* easeFactor 2.5} a rating of 4 gives repetition 2 and interval 15
C3_Original ==
    (Called /\ Prev # Undefined /\ lastCall.rating = 4)
    => ((Prev.repetition = 1 /\ Prev.interval = 6 /\ Prev.efactor = 250)
        => (card.repetition = 2 /\ card.interval = 15))

\* C3, amended: from {repetition 1, interval 6, easeFactor 2.5} a rating of 4
\* gives repetition 2 and interval 6, the fixed interval of the second pass
C3_SecondPassIsSix ==
    (Called /\ Prev # Undefined /\ lastCall.rating = 4)
    => ((Prev.repetition = 1 /\ Prev.interval = 6 /\ Prev.efactor = 250)
        => (card.repetition = 2 /\ card.interval = 6))

C3_Witness ==
    /\ Called /\ Prev # Undefined /\ lastCall.rating = 4
    /\ Prev.repetition = 1 /\ Prev.interval = 6 /\ Prev.efactor = 250
    /\ card.repetition = 2

\* C4: a rating outside 0..5 is rejected: the call produces no new record
C4_OutOfRangeRejected ==
    (Called /\ lastCall.rating \notin Rating) => card = Prev

\* C5: after every rating in 0..5, from absent progress or from a record with
\* easeFactor >= 1.3, the easeFactor of the result is >= 1.3
C5_EfactorFloor ==
    (Called /\ lastCall.rating \in Rating /\ PrevEfactor >= 130)
    => card.efactor >= 130

\* a rating that would take the easeFactor below 1.3
C5_Witness ==
    /\ Called /\ lastCall.rating \in 0..3
    /\ PrevEfactor >= 130 /\ PrevEfactor <= 140
    /\ card.efactor = 130

\* C6: a rating in {0,1,2} returns repetition 0 and interval 1, whatever the
\* previous state
C6_FailureResets ==
    (Called /\ lastCall.rating \in 0..2)
    => (card.repetition = 0 /\ card.interval = 1)

C6_Witness ==
    /\ Called /\ lastCall.rating \in 0..2
    /\ PrevRepetition = 3 /\ PrevInterval = 15
    /\ card.repetition = 0

\* C7, as the specification states it: from absent or any record with
\* interval >= 0 and repetition >= 0, a rating in {3,4,5} returns the
\* previous repetition + 1 and an interval > 0
C7_Original ==
    (Called /\ lastCall.rating \in 3..5 /\ PrevInterval >= 0 /\ PrevRepetition >= 0)
    => (card.repetition = PrevRepetition + 1 /\ card.interval > 0)

\* C7, amended: from absent, or from a record with repetition >= 0,
\* easeFactor >= 1.3 and either repetition <= 1 or interval >= 1, a rating in
\* {3,4,5} returns the previous repetition + 1 and an interval > 0
C7_SuccessAdvances ==
    (/\ Called /\ lastCall.rating \in 3..5
     /\ PrevRepetition >= 0 /\ PrevEfactor >= 130
     /\ (PrevRepetition <= 1 \/ PrevInterval >= 1))
    => (card.repetition = PrevRepetition + 1 /\ card.interval > 0)

\* a first pass from a stored record whose interval is 0
C7_Witness ==
    /\ Called /\ lastCall.rating \in 3..4
    /\ Prev # Undefined /\ Prev.repetition = 0 /\ Prev.interval = 0
    /\ card.repetition = 1 /\ card.interval = 1

\* C8: on a rating >= 3 the interval is 4 (repetition 0, rating 5), 1
\* (repetition 0, rating 3 or 4), 6 (repetition 1), else round(interval x
\* easeFactor); absent progress counts as {repetition 0, interval 0,
\* easeFactor 2.5}, so a 5 on absent progress gives repetition 1, interval 4
\* and a next review 4 days after the call
C8_SuccessIntervals ==
    (Called /\ lastCall.rating \in 3..5)
    => /\ card.interval =
              CASE PrevRepetition = 0 /\ lastCall.rating = 5 -> 4
                []  PrevRepetition = 0 /\ lastCall.rating # 5 -> 1
                []  PrevRepetition = 1 -> 6
                []  OTHER -> (2 * PrevInterval * PrevEfactor + 100) \div 200
       /\ Prev = Undefined
          => card = calculateNextReview(
                      [termId |-> HarnessTerm, repetition |-> 0, interval |-> 0,
                       efactor |-> 250, nextReviewDate |-> 0],
                      lastCall.rating, HarnessTerm, lastCall.dateNow)
       /\ (Prev = Undefined /\ lastCall.rating = 5)
          => /\ card.repetition = 1
             /\ card.interval = 4
             /\ card.nextReviewDate = lastCall.dateNow + 4 * 86400000

C8_Witness ==
    /\ Called /\ Prev = Undefined /\ lastCall.rating = 5
    /\ lastCall.dateNow > StartNow
    /\ card.interval = 4

\* the change of the easeFactor, in hundredths, by rating 0..5
EaseDelta == <<0 - 80, 0 - 54, 0 - 32, 0 - 14, 0, 10>>

\* C9: every rating, pass or fail, updates the easeFactor to
\* max(1.3, old + delta(rating)); a 5 always adds 0.10, there is no ceiling;
\* the interval of a pass is computed with the old easeFactor
C9_EaseUpdate ==
    (Called /\ lastCall.rating \in Rating)
    => /\ card.efactor =
              IF PrevEfactor + EaseDelta[lastCall.rating + 1] > 130
              THEN PrevEfactor + EaseDelta[lastCall.rating + 1]
              ELSE 130
       /\ (lastCall.rating = 5 /\ PrevEfactor >= 130)
          => card.efactor = PrevEfactor + 10
       /\ (lastCall.rating >= 3 /\ PrevRepetition >= 2)
          => card.interval = (2 * PrevInterval * PrevEfactor + 100) \div 200

\* a pass whose interval differs between the old and the new easeFactor, at
\* an easeFactor above the default
C9_Witness ==
    /\ Called /\ lastCall.rating = 5
    /\ PrevRepetition >= 2 /\ PrevEfactor > 250
    /\ card.interval # (2 * PrevInterval * card.efactor + 100) \div 200
    /\ card.efactor = PrevEfactor + 10

\* C10: the nextReviewDate of the result is the instant of the call plus the
\* interval of the result in days, so never before the instant of the call
C10_NextReviewFromNow ==
    Called
    => /\ card.nextReviewDate = lastCall.dateNow + card.interval * 86400000
       /\ card.nextReviewDate >= lastCall.dateNow

\* a second call, at a later instant than the first
C10_Witness ==
    /\ Called /\ Prev # Undefined
    /\ lastCall.dateNow > StartNow
    /\ lastCall.dateNow >= Prev.nextReviewDate
    /\ card.interval = 6
    /\ rated = 2

-----------------------------------------------------------------------------
(* Due predicate harness: isDue applied to bounded records while the clock *)
(* advances and the record is rated again.                                 *)

\* the review dates of the records a first call is given
DueDates == {StartNow, StartNow + HalfDay, StartNow + oneDay}
DueRecords ==
    [termId : {HarnessTerm}, repetition : {0, 1, 2}, interval : {1, 6},
     efactor : {DefaultEfactor}, nextReviewDate : DueDates]

InitDue ==
    /\ AppIdle
    /\ now = StartNow
    /\ rated = 0
    /\ card \in {Undefined} \cup DueRecords
    /\ lastCall = NoCall
    /\ lastDue = NoCall
    /\ QuizIdle

\* one call isDue(card), the result kept
CheckDue ==
    /\ lastDue' = [called |-> TRUE, progress |-> card, dateNow |-> now,
                   result |-> isDue(card, now)]
    /\ UNCHANGED <<appVars, card, lastCall, quizVars, now, rated>>

NextDue == CheckDue \/ ReviewRated \/ Tick

SpecDue == InitDue /\ [][NextDue]_vars

\* C11: isDue is true for absent progress at every instant, and for a record
\* it is true exactly when the instant is at or after nextReviewDate
C11_DueIffReached ==
    lastDue.called
    => /\ lastDue.progress = Undefined => lastDue.result = TRUE
       /\ lastDue.progress # Undefined
          => (lastDue.result = TRUE
              <=> ~(lastDue.dateNow < lastDue.progress.nextReviewDate))

\* a record asked about at its very review date
C11_Witness ==
    /\ lastDue.called /\ lastDue.progress # Undefined
    /\ lastDue.dateNow = lastDue.progress.nextReviewDate
    /\ lastDue.result = TRUE

\* C12: a record found due stays due at every later instant, as long as it
\* is not rated again
C12_DueStaysDue ==
    (lastDue.called /\ lastDue.result = TRUE /\ lastDue.progress = card
     /\ now >= lastDue.dateNow)
    => isDue(card, now)

\* a record found due, and the clock past that instant
C12_Witness ==
    /\ lastDue.called /\ lastDue.result = TRUE
    /\ card # Undefined /\ lastDue.progress = card
    /\ now > lastDue.dateNow
    /\ isDue(card, now)

-----------------------------------------------------------------------------
(* The catalog: TERMS and CHAPTERS of ./data, which the App imports.  The   *)
(* first two terms belong to chapter c1, the others to c2; c3 is a chapter *)
(* without terms.                                                          *)

ChapterOf(i) == IF i <= 2 THEN "c1" ELSE "c2"
TERMS == [i \in 1..NumTerms |-> [id |-> i, chapterId |-> ChapterOf(i)]]
CHAPTERS == {"c1", "c2", "c3"}

\* TERMS.filter(pred), an order-preserving filter
RECURSIVE Filter(_, _)
Filter(seq, keep) ==
    IF seq = <<>> THEN <<>>
    ELSE IF Head(seq).id \in keep
         THEN <<Head(seq)>> \o Filter(Tail(seq), keep)
         ELSE Filter(Tail(seq), keep)

ChapterTerms(chapterId) ==
    Filter(TERMS, {i \in 1..NumTerms : TERMS[i].chapterId = chapterId})

-----------------------------------------------------------------------------
(* The App component *)

\* the session states the view distinguishes
Idle == selectedChapter = Null
Active == selectedChapter # Null /\ Len(sessionDeck) > 0
Complete == selectedChapter # Null /\ Len(sessionDeck) = 0

\* the view a handler runs in
View == IF Idle THEN "Idle" ELSE IF Active THEN "Active" ELSE "Complete"

Init ==
    /\ AppIdle
    /\ now = StartNow
    /\ rated = 0
    /\ card = Undefined
    /\ lastCall = NoCall
    /\ lastDue = NoCall
    /\ QuizIdle

\* stopSessionTimer leaving sessionStartTime as it is
TimerStopped_KeepsStart ==
    IF sessionStartTime # NullTime /\ sessionStartTime # 0
    THEN LET sessionMs == now - sessionStartTime
         IN  [totalStudyTime |-> totalStudyTime + sessionMs,
              storedTime |-> totalStudyTime + sessionMs,
              currentSessionDuration |-> sessionMs,
              sessionStartTime |-> sessionStartTime,
              saves |-> 1]
    ELSE [totalStudyTime |-> totalStudyTime,
          storedTime |-> storedTime,
          currentSessionDuration |-> currentSessionDuration,
          sessionStartTime |-> sessionStartTime,
          saves |-> 0]

\* stopSessionTimer without its test of sessionStartTime
TimerStopped_NoGuard ==
    LET sessionMs == now - sessionStartTime
    IN  [totalStudyTime |-> totalStudyTime + sessionMs,
         storedTime |-> totalStudyTime + sessionMs,
         currentSessionDuration |-> sessionMs,
         sessionStartTime |-> NullTime,
         saves |-> 1]

\* stopSessionTimer saving the time of the session in place of the total
TimerStopped_NotAccumulated ==
    IF sessionStartTime # NullTime /\ sessionStartTime # 0
    THEN LET sessionMs == now - sessionStartTime
         IN  [totalStudyTime |-> sessionMs,
              storedTime |-> sessionMs,
              currentSessionDuration |-> sessionMs,
              sessionStartTime |-> NullTime,
              saves |-> 1]
    ELSE [totalStudyTime |-> totalStudyTime,
          storedTime |-> storedTime,
          currentSessionDuration |-> currentSessionDuration,
          sessionStartTime |-> sessionStartTime,
          saves |-> 0]

\* stopSessionTimer: the values of totalStudyTime, storedTime,
\* currentSessionDuration and sessionStartTime after it, and the number of
\* calls of saveTime it made
TimerStopped ==
    IF sessionStartTime # NullTime /\ sessionStartTime # 0
    THEN LET sessionMs == now - sessionStartTime
         IN  [totalStudyTime |-> totalStudyTime + sessionMs,
              storedTime |-> totalStudyTime + sessionMs,
              currentSessionDuration |-> sessionMs,
              sessionStartTime |-> NullTime,
              saves |-> 1]
    ELSE [totalStudyTime |-> totalStudyTime,
          storedTime |-> storedTime,
          currentSessionDuration |-> currentSessionDuration,
          sessionStartTime |-> sessionStartTime,
          saves |-> 0]

\* saveProgress keeping the changed records only, the others dropped
saveProgress_ChangedOnly(newProgress) ==
    LET changed == [t \in 1..NumTerms |->
                       IF newProgress[t] # progress[t]
                       THEN newProgress[t] ELSE Undefined]
    IN  [progress |-> changed, storedProgress |-> changed]

\* saveProgress that sets the state and leaves the localStorage item alone
saveProgress_StateOnly(newProgress) ==
    [progress |-> newProgress, storedProgress |-> storedProgress]

\* saveProgress: the progress state and the localStorage item after it
saveProgress(newProgress) ==
    [progress |-> newProgress, storedProgress |-> newProgress]

\* the test of a next card ending the session one card early
HasNextCard_EndsEarly(index, deck) == index < Len(deck) - 2

\* the test of a next card that never finds the deck at its end
HasNextCard_Always(index, deck) == TRUE

\* the test of a next card comparing with the length of the deck itself
HasNextCard_UpToLength(index, deck) == index < Len(deck)

\* handleRate, lines 115-118: the test that moves to the next card; it reads
\* the deck of the render, not the deck with the card appended
HasNextCard(index, deck) == index < Len(deck) - 1

\* the deck after the queued updates of handleRate: the append of line 112,
\* then, at the end of the session, the setSessionDeck([]) of line 121
DeckAfterRate(deck, index, currentTerm, rating) ==
    LET appended == IF rating < 3 THEN Append(deck, currentTerm) ELSE deck
    IN  IF HasNextCard(index, deck) THEN appended ELSE <<>>

\* the early returns of handleRate writing the progress map to localStorage
handleRateReturns_Saving(rating) ==
    /\ lastOp' = [op |-> "rate", view |-> View, rating |-> rating]
    /\ storedProgress' = progress
    /\ UNCHANGED <<selectedChapter, progress, sessionDeck, activeCardIndex,
                   quizActive, totalStudyTime, sessionStartTime,
                   currentSessionDuration, mixedCount, storedTime,
                   alerts, sessionFailed, unaccounted, tally, rated>>

\* the early returns of handleRate, lines 96 and 99: no state is set
handleRateReturns(rating) ==
    /\ lastOp' = [op |-> "rate", view |-> View, rating |-> rating]
    /\ UNCHANGED <<selectedChapter, progress, sessionDeck, activeCardIndex,
                   quizActive, totalStudyTime, sessionStartTime,
                   currentSessionDuration, mixedCount, storedProgress, storedTime,
                   alerts, sessionFailed, unaccounted, tally, rated>>

handleRate(rating) ==
    /\ rated < MaxRated
    /\ IF selectedChapter = Null \/ Len(sessionDeck) = 0
          \/ activeCardIndex >= Len(sessionDeck)
       THEN handleRateReturns(rating)
       ELSE LET currentTerm == sessionDeck[activeCardIndex + 1]
                currentProgress == progress[currentTerm.id]
                newTermProgress ==
                    calculateNextReview(currentProgress, rating, currentTerm.id, now)
                newProgress == [progress EXCEPT ![currentTerm.id] = newTermProgress]
                stopped == TimerStopped
                more == HasNextCard(activeCardIndex, sessionDeck)
            IN  /\ NewInterval(SeedRepetition(currentProgress),
                               SeedInterval(currentProgress),
                               SeedEfactor(currentProgress), rating) <= MaxInterval
                /\ progress' = saveProgress(newProgress).progress
                /\ storedProgress' = saveProgress(newProgress).storedProgress
                /\ sessionDeck' =
                       DeckAfterRate(sessionDeck, activeCardIndex, currentTerm, rating)
                /\ activeCardIndex' = IF more THEN activeCardIndex + 1 ELSE 0
                /\ totalStudyTime' =
                       IF more THEN totalStudyTime ELSE stopped.totalStudyTime
                /\ storedTime' = IF more THEN storedTime ELSE stopped.storedTime
                /\ currentSessionDuration' =
                       IF more THEN currentSessionDuration
                       ELSE stopped.currentSessionDuration
                /\ sessionStartTime' =
                       IF more THEN sessionStartTime ELSE stopped.sessionStartTime
                /\ sessionFailed' = IF rating < 3
                                    THEN sessionFailed \cup {currentTerm.id}
                                    ELSE sessionFailed \ {currentTerm.id}
                /\ unaccounted' = IF more THEN unaccounted
                                   ELSE unaccounted - stopped.saves
                /\ tally' = [tally EXCEPT
                                 !.rates = @ + 1,
                                 !.appended =
                                     IF Len(sessionDeck') > Len(sessionDeck)
                                     THEN @ + (Len(sessionDeck') - Len(sessionDeck))
                                     ELSE @]
                /\ lastOp' = [op |-> "rate", view |-> View, rating |-> rating,
                              term |-> currentTerm.id]
                /\ rated' = rated + 1
                /\ UNCHANGED <<selectedChapter, quizActive, mixedCount, alerts>>
    /\ UNCHANGED <<harnessVars, now>>

\* DueDeck with the never-rated terms only
DueDeck_NewOnly(chapterId) ==
    Filter(ChapterTerms(chapterId),
           {i \in 1..NumTerms : progress[i] = Undefined})

\* the terms of a chapter that are due, in catalog order
DueDeck(chapterId) ==
    Filter(ChapterTerms(chapterId),
           {i \in 1..NumTerms : isDue(progress[i], now)})

\* startSession without the test for an empty deck
startSession_NoEmptyCheck(chapterId, forceAll) ==
    LET deck == IF forceAll THEN ChapterTerms(chapterId) ELSE DueDeck(chapterId)
    IN  /\ sessionDeck' = deck
        /\ selectedChapter' = chapterId
        /\ quizActive' = FALSE
        /\ activeCardIndex' = 0
        /\ sessionStartTime' = now
        /\ sessionFailed' = {}
        /\ unaccounted' = unaccounted + 1
        /\ tally' = [initial |-> Len(deck), rates |-> 0, appended |-> 0]
        /\ lastOp' = [op |-> "start", view |-> View, chapterId |-> chapterId,
                      forceAll |-> forceAll]
        /\ UNCHANGED <<progress, totalStudyTime, currentSessionDuration, mixedCount,
                       storedProgress, storedTime, alerts, harnessVars, now, rated>>

startSession(chapterId, forceAll) ==
    LET deck == IF forceAll THEN ChapterTerms(chapterId) ELSE DueDeck(chapterId)
    IN  /\ IF Len(deck) = 0 /\ ~forceAll
           THEN /\ alerts' = alerts + 1
                /\ lastOp' = [op |-> "alert", view |-> View, chapterId |-> chapterId]
                /\ UNCHANGED <<selectedChapter, sessionDeck, quizActive,
                               activeCardIndex, sessionStartTime, sessionFailed,
                               unaccounted, tally>>
           ELSE /\ sessionDeck' = deck
                /\ selectedChapter' = chapterId
                /\ quizActive' = FALSE
                /\ activeCardIndex' = 0
                /\ sessionStartTime' = now
                /\ sessionFailed' = {}
                /\ unaccounted' = unaccounted + 1
                /\ tally' = [initial |-> Len(deck), rates |-> 0, appended |-> 0]
                /\ lastOp' = [op |-> "start", view |-> View, chapterId |-> chapterId,
                              forceAll |-> forceAll]
                /\ UNCHANGED alerts
        /\ UNCHANGED <<progress, totalStudyTime, currentSessionDuration, mixedCount,
                       storedProgress, storedTime, harnessVars, now, rated>>

\* the chapter grid, shown while no chapter is selected: startSession(chapter.id)
StartDue ==
    /\ selectedChapter = Null
    /\ alerts < MaxAlerts
    /\ \E chapterId \in CHAPTERS : startSession(chapterId, FALSE)

\* 'Review Again' of the summary view of a chapter: startSession(selectedChapter, true)
ReviewAgain ==
    /\ Complete /\ ~quizActive /\ selectedChapter # MIXED
    /\ startSession(selectedChapter, TRUE)

\* Shuffles drawing every position on its own, so that a term may repeat
Shuffles_WithRepeats == [1..NumTerms -> 1..NumTerms]

\* the orders allTerms.sort(() => 0.5 - Math.random()) may leave TERMS in
Shuffles ==
    {s \in [1..NumTerms -> 1..NumTerms] : \A i \in 1..NumTerms : \E j \in 1..NumTerms : s[j] = i}

Min(a, b) == IF a < b THEN a ELSE b
Max(a, b) == IF a > b THEN a ELSE b

\* allTerms.slice(0, Math.max(1, Math.min(mixedCount, allTerms.length)))
MixedDeck(shuffle) ==
    [k \in 1..Min(Max(1, Min(mixedCount, NumTerms)), NumTerms) |-> TERMS[shuffle[k]]]

\* startMixedSession; the button is on the start page, and 'Review Again' of
\* the summary view of a mixed session calls it too
startMixedSession ==
    /\ \/ selectedChapter = Null
       \/ Complete /\ ~quizActive /\ selectedChapter = MIXED
    /\ \E shuffle \in Shuffles : sessionDeck' = MixedDeck(shuffle)
    /\ selectedChapter' = MIXED
    /\ quizActive' = FALSE
    /\ activeCardIndex' = 0
    /\ sessionStartTime' = now
    /\ sessionFailed' = {}
    /\ unaccounted' = unaccounted + 1
    /\ tally' = [initial |-> Len(sessionDeck'), rates |-> 0, appended |-> 0]
    /\ lastOp' = [op |-> "mixed", view |-> View, mixedCount |-> mixedCount]
    /\ UNCHANGED <<progress, totalStudyTime, currentSessionDuration, mixedCount,
                   storedProgress, storedTime, alerts, harnessVars, now, rated>>

\* the numbers typed into the quantity input
MixedCounts == {0, 2, DefaultMixedCount}

\* the quantity input of the start page: setMixedCount(Number(e.target.value))
setMixedCount ==
    /\ selectedChapter = Null
    /\ \E n \in MixedCounts : n # mixedCount /\ mixedCount' = n
    /\ UNCHANGED <<selectedChapter, progress, sessionDeck, activeCardIndex, quizActive,
                   totalStudyTime, sessionStartTime, currentSessionDuration,
                   storedProgress, storedTime, alerts, sessionFailed, unaccounted,
                   lastOp, tally, harnessVars, now, rated>>

\* exitSession; its buttons are shown while a chapter is selected
exitSession ==
    /\ selectedChapter # Null
    /\ LET stopped == TimerStopped
       IN  /\ totalStudyTime' = stopped.totalStudyTime
           /\ storedTime' = stopped.storedTime
           /\ currentSessionDuration' = stopped.currentSessionDuration
           /\ sessionStartTime' = stopped.sessionStartTime
           /\ unaccounted' = unaccounted - stopped.saves
    /\ selectedChapter' = Null
    /\ sessionDeck' = <<>>
    /\ quizActive' = FALSE
    /\ activeCardIndex' = 0
    /\ lastOp' = [op |-> "exit", view |-> View]
    /\ tally' = NoTally
    /\ UNCHANGED <<progress, mixedCount, storedProgress, alerts, sessionFailed,
                   harnessVars, now, rated>>

\* 'Take Quiz' of the summary view, and the onExit of the Quiz
setQuizActive ==
    /\ Complete
    /\ quizActive' = ~quizActive
    /\ UNCHANGED <<selectedChapter, progress, sessionDeck, activeCardIndex,
                   totalStudyTime, sessionStartTime, currentSessionDuration, mixedCount,
                   storedProgress, storedTime, alerts, sessionFailed, unaccounted,
                   lastOp, tally, harnessVars, now, rated>>

\* the four buttons of the Card: onRate(1), onRate(2), onRate(3), onRate(5)
CardRatings == {1, 2, 3, 5}

Rate == \E rating \in CardRatings : handleRate(rating)

Next ==
    \/ Rate
    \/ StartDue
    \/ ReviewAgain
    \/ startMixedSession
    \/ setMixedCount
    \/ exitSession
    \/ setQuizActive
    \/ Tick

Spec == Init /\ [][Next]_vars

\* startSession as a caller may invoke it from the chapter grid, with either
\* value of its forceAll parameter and any chapter id of the catalog
startSessionCalled ==
    /\ selectedChapter = Null
    /\ alerts < MaxAlerts
    /\ \E chapterId \in CHAPTERS, forceAll \in BOOLEAN : startSession(chapterId, forceAll)

NextCalls ==
    \/ startSessionCalled
    \/ Rate
    \/ exitSession
    \/ Tick

SpecCalls == Init /\ [][NextCalls]_vars

-----------------------------------------------------------------------------
(* The answer check of the Quiz, src/unnamed/part_000.  A string is the     *)
(* sequence of its characters, each a string of length one.                 *)

UpperCase ==
    <<"A", "B", "C", "D", "E", "F", "G", "H", "I", "J", "K", "L", "M",
      "N", "O", "P", "Q", "R", "S", "T", "U", "V", "W", "X", "Y", "Z">>
LowerCase ==
    <<"a", "b", "c", "d", "e", "f", "g", "h", "i", "j", "k", "l", "m",
      "n", "o", "p", "q", "r", "s", "t", "u", "v", "w", "x", "y", "z">>
Digits == {"0", "1", "2", "3", "4", "5", "6", "7", "8", "9"}
\* the white space String.prototype.trim removes, of the characters in use
WhiteSpace == {" "}

\* toLowerCase, on one character
toLowerCase(c) ==
    IF \E i \in 1..Len(UpperCase) : UpperCase[i] = c
    THEN LowerCase[CHOOSE i \in 1..Len(UpperCase) : UpperCase[i] = c]
    ELSE c

\* the characters /[^a-z0-9]/g leaves in place
IsAlphaNumeric(c) ==
    \/ \E i \in 1..Len(LowerCase) : LowerCase[i] = c
    \/ c \in Digits

\* normalize: str.toLowerCase().replace(/[^a-z0-9]/g, '')
normalize(str) ==
    SelectSeq([i \in 1..Len(str) |-> toLowerCase(str[i])], IsAlphaNumeric)

\* the least of the first two only: no substitution
Min3_NoDiagonal(x, y, z) == IF x <= y THEN x ELSE y

Min3(x, y, z) ==
    IF x <= y /\ x <= z THEN x ELSE IF y <= z THEN y ELSE z

\* row j of the matrix, column by column: filled holds matrix[j][0..i-1] and
\* above is matrix[j-1]
RECURSIVE MatrixRowFrom(_, _, _, _, _)
MatrixRowFrom(a, b, j, above, filled) ==
    IF Len(filled) > Len(a)
    THEN filled
    ELSE LET i == Len(filled)
             indicator == IF a[i] = b[j] THEN 0 ELSE 1
         IN  MatrixRowFrom(a, b, j, above,
                           Append(filled, Min3(filled[i] + 1,
                                               above[i + 1] + 1,
                                               above[i] + indicator)))

\* matrix[j], as the sequence of its columns 0..a.length; the row above is
\* computed in full before the row is filled
RECURSIVE MatrixRow(_, _, _)
MatrixRow(a, b, j) ==
    IF j = 0
    THEN [i \in 1..(Len(a) + 1) |-> i - 1]
    ELSE LET above == MatrixRow(a, b, j - 1)
         IN  IF Len(above) = Len(a) + 1
             THEN MatrixRowFrom(a, b, j, above, <<j>>)
             ELSE <<>>

getLevenshteinDistance(a, b) == MatrixRow(a, b, Len(b))[Len(a) + 1]

\* correctTerm.match(/\(([^)]+)\)/g) from position from on: the matches, left
\* to right, each with the positions of its "(" and of its ")"
RECURSIVE ParenMatches(_, _)
ParenMatches(str, from) ==
    IF from > Len(str)
    THEN <<>>
    ELSE IF str[from] # "("
    THEN ParenMatches(str, from + 1)
    ELSE LET closing == {k \in (from + 1)..Len(str) : str[k] = ")"}
             first == CHOOSE k \in closing : \A l \in closing : k <= l
         IN  IF closing = {}
             THEN <<>>
             ELSE IF first = from + 1
             THEN ParenMatches(str, from + 1)
             ELSE <<[start |-> from, end |-> first]>>
                  \o ParenMatches(str, first + 1)

\* the matched texts, parentheses included
inParens(correctTerm) ==
    LET matches == ParenMatches(correctTerm, 1)
    IN  [m \in 1..Len(matches) |->
             SubSeq(correctTerm, matches[m].start, matches[m].end)]

\* String.prototype.trim
RECURSIVE trim(_)
trim(str) ==
    IF str = <<>>
    THEN str
    ELSE IF str[1] \in WhiteSpace
    THEN trim(Tail(str))
    ELSE IF str[Len(str)] \in WhiteSpace
    THEN trim(SubSeq(str, 1, Len(str) - 1))
    ELSE str

\* correctTerm.replace(/\([^)]+\)/g, '').trim()
withoutParens(correctTerm) ==
    LET matches == ParenMatches(correctTerm, 1)
        Kept(k) == \A m \in 1..Len(matches) :
                       k < matches[m].start \/ k > matches[m].end
        keptAt == [k \in 1..Len(correctTerm) |-> Kept(k)]
        Pick(pair) == pair[2]
        pairs == [k \in 1..Len(correctTerm) |-> <<correctTerm[k], keptAt[k]>>]
        left == SelectSeq(pairs, Pick)
    IN  trim([k \in 1..Len(left) |-> left[k][1]])

\* str.split(sep), sep one character
RECURSIVE split(_, _)
split(str, sep) ==
    LET at == {k \in 1..Len(str) : str[k] = sep}
        first == CHOOSE k \in at : \A l \in at : k <= l
    IN  IF at = {}
        THEN <<str>>
        ELSE <<SubSeq(str, 1, first - 1)>>
             \o split(SubSeq(str, first + 1, Len(str)), sep)

\* the candidates without the texts in parentheses
Candidates_NoParens(correctTerm) ==
    LET bare == withoutParens(correctTerm)
        parts == split(correctTerm, "/")
    IN  <<normalize(correctTerm)>>
        \o (IF bare # <<>> THEN <<normalize(bare)>> ELSE <<>>)
        \o (IF \E k \in 1..Len(correctTerm) : correctTerm[k] = "/"
            THEN [m \in 1..Len(parts) |-> normalize(parts[m])]
            ELSE <<>>)

\* the candidates array of checkAnswerSmart, in the order of its pushes
Candidates(correctTerm) ==
    LET segments == inParens(correctTerm)
        bare == withoutParens(correctTerm)
        parts == split(correctTerm, "/")
    IN  <<normalize(correctTerm)>>
        \o [m \in 1..Len(segments) |-> normalize(segments[m])]
        \o (IF bare # <<>> THEN <<normalize(bare)>> ELSE <<>>)
        \o (IF \E k \in 1..Len(correctTerm) : correctTerm[k] = "/"
            THEN [m \in 1..Len(parts) |-> normalize(parts[m])]
            ELSE <<>>)

\* the fuzzy test allowing errors up to half the length
FuzzyMatch_HalfLength(user, cand) ==
    /\ Len(cand) > 3
    /\ getLevenshteinDistance(user, cand) <= Len(cand) \div 2

\* the fuzzy test allowing one error in a candidate of any length
FuzzyMatch_ShortToo(user, cand) ==
    getLevenshteinDistance(user, cand) <= Max(1, Len(cand) \div 4)

\* the test of the fuzzy loop for one candidate
FuzzyMatch(user, cand) ==
    /\ Len(cand) > 3
    /\ getLevenshteinDistance(user, cand) <= Len(cand) \div 4

\* checkAnswerSmart without the test of an empty answer
checkAnswerSmart_NoEmptyTest(input, correctTerm) ==
    LET user == normalize(input)
        target == normalize(correctTerm)
        candidates == Candidates(correctTerm)
    IN  IF user = target THEN TRUE
        ELSE IF \E k \in 1..Len(candidates) : candidates[k] = user THEN TRUE
        ELSE \E k \in 1..Len(candidates) : FuzzyMatch(user, candidates[k])

\* checkAnswerSmart with the fuzzy test on the first candidate only
checkAnswerSmart_FirstCandidate(input, correctTerm) ==
    LET user == normalize(input)
        target == normalize(correctTerm)
        candidates == Candidates(correctTerm)
    IN  IF user = <<>> THEN FALSE
        ELSE IF user = target THEN TRUE
        ELSE IF \E k \in 1..Len(candidates) : candidates[k] = user THEN TRUE
        ELSE FuzzyMatch(user, candidates[1])

checkAnswerSmart(input, correctTerm) ==
    LET user == normalize(input)
        target == normalize(correctTerm)
        candidates == Candidates(correctTerm)
    IN  IF user = <<>> THEN FALSE
        ELSE IF user = target THEN TRUE
        ELSE IF \E k \in 1..Len(candidates) : candidates[k] = user THEN TRUE
        ELSE \E k \in 1..Len(candidates) : FuzzyMatch(user, candidates[k])

\* terms of the quiz, as they are displayed
ObjectOrientedProgramming ==
    <<"O", "b", "j", "e", "c", "t", " ", "O", "r", "i", "e", "n", "t", "e",
      "d", " ", "P", "r", "o", "g", "r", "a", "m", "m", "i", "n", "g">>
IntegratedDevelopmentEnvironment ==
    <<"I", "n", "t", "e", "g", "r", "a", "t", "e", "d", " ", "D", "e", "v",
      "e", "l", "o", "p", "m", "e", "n", "t", " ", "E", "n", "v", "i", "r",
      "o", "n", "m", "e", "n", "t", " ", "(", "I", "D", "E", ")">>
RandomAccessMemory ==
    <<"R", "A", "M">>
InputOutput ==
    <<"I", "/", "O">>
Byte ==
    <<"B", "y", "t", "e">>
BitOrByte ==
    <<"B", "i", "t", "/", "B", "y", "t", "e">>
LogicalAnd ==
    <<"&", "&">>
FunctionCall ==
    <<"f", "(", ")">>

CheckTerms ==
    {ObjectOrientedProgramming,
     IntegratedDevelopmentEnvironment,
     RandomAccessMemory,
     InputOutput,
     Byte,
     BitOrByte,
     LogicalAnd,
     FunctionCall}

\* answers typed into the input field
Typed_xyz ==
    <<"x", "y", "z">>
Typed_ide ==
    <<"i", "d", "e">>
Typed_IDE ==
    <<"I", ".", "D", ".", "E", ".">>
Typed_objct ==
    <<"o", "b", "j", "c", "t", " ", "o", "r", "i", "e", "n", "t", "e", "d",
      " ", "p", "r", "o", "g", "r", "a", "m", "m", "i", "n", "g">>
Typed_ObjectOriented ==
    <<"O", "b", "j", "e", "c", "t", "-", "O", "r", "i", "e", "n", "t", "e",
      "d", " ", "P", "r", "o", "g", "r", "a", "m", "m", "i", "n", "g">>
Typed_objekt ==
    <<"o", "b", "j", "e", "k", "t", " ", "o", "r", "e", "n", "t", "d", " ",
      "p", "r", "o", "g", "r", "a", "m", "i", "n", "g">>
Typed_oop ==
    <<"o", "r", "i", "e", "n", "t", "e", "d", " ", "p", "r", "o", "g", "r",
      "a", "m", "m", "i", "n", "g">>
Typed_integrated ==
    <<"i", "n", "t", "e", "g", "r", "a", "t", "e", "d", " ", "d", "e", "v",
      "e", "l", "o", "p", "m", "e", "n", "t", " ", "e", "n", "v", "i", "r",
      "o", "n", "m", "n", "t">>
Typed_bytes ==
    <<"b", "y", "t", "e", "s">>
Typed_bites ==
    <<"b", "i", "t", "e", "s">>
Typed_blank ==
    <<" ", " ">>
Typed_mark ==
    <<"?">>
Typed_ram ==
    <<"R", ".", "A", ".", "M">>
Typed_f ==
    <<"F">>

\* length of the answers typed letter by letter
MaxInputLen == 3
CheckLetters == {"a", "b", "e", "i", "m", "o", "r", "t", "y"}

CheckInputs ==
    UNION {[1..n -> CheckLetters] : n \in 0..MaxInputLen}
    \cup {Typed_xyz,
          Typed_ide,
          Typed_IDE,
          Typed_objct,
          Typed_ObjectOriented,
          Typed_objekt,
          Typed_oop,
          Typed_integrated,
          Typed_bytes,
          Typed_bites,
          Typed_blank,
          Typed_mark,
          Typed_ram,
          Typed_f}

InitCheck ==
    /\ AppIdle
    /\ now = StartNow
    /\ rated = 0
    /\ card = Undefined
    /\ lastCall = NoCall
    /\ lastDue = NoCall
    /\ lastDistance = NoCall
    /\ quizTerms = <<>>
    /\ questions = <<>>
    /\ PlayIdle
    /\ lastCheck \in {[called |-> FALSE, input |-> input, correctTerm |-> term] :
                         input \in CheckInputs, term \in CheckTerms}

\* one call checkAnswerSmart(input, correctTerm), the result kept
CheckAnswer ==
    /\ ~lastCheck.called
    /\ lastCheck' = [called |-> TRUE, input |-> lastCheck.input,
                     correctTerm |-> lastCheck.correctTerm,
                     result |-> checkAnswerSmart(lastCheck.input,
                                                 lastCheck.correctTerm)]
    /\ UNCHANGED <<appVars, card, lastCall, lastDue, lastDistance, quizTerms,
                   questions, playVars, now, rated>>

NextCheck == CheckAnswer

SpecCheck == InitCheck /\ [][NextCheck]_vars

\* length of the longest word measured
MaxWordLen == 3
WordLetters == {"a", "b", "c"}
Words == UNION {[1..n -> WordLetters] : n \in 0..MaxWordLen}

InitDistance ==
    /\ AppIdle
    /\ now = StartNow
    /\ rated = 0
    /\ card = Undefined
    /\ lastCall = NoCall
    /\ lastDue = NoCall
    /\ lastCheck = NoCall
    /\ quizTerms = <<>>
    /\ questions = <<>>
    /\ PlayIdle
    /\ lastDistance \in {[called |-> FALSE, a |-> a, b |-> b] :
                            a \in Words, b \in Words}

\* one call getLevenshteinDistance(a, b), the result kept
MeasureDistance ==
    /\ ~lastDistance.called
    /\ lastDistance' = [called |-> TRUE, a |-> lastDistance.a,
                        b |-> lastDistance.b,
                        result |-> getLevenshteinDistance(lastDistance.a,
                                                          lastDistance.b)]
    /\ UNCHANGED <<appVars, card, lastCall, lastDue, lastCheck, quizTerms,
                   questions, playVars, now, rated>>

NextDistance == MeasureDistance

SpecDistance == InitDistance /\ [][NextDistance]_vars

-----------------------------------------------------------------------------
(* The question generator of the Quiz, src/unnamed/part_000.  Math.random   *)
(* is an input: the order a random sort leaves an array in is one of the    *)
(* arrangements below, the type of the k-th question one bit of typeBits.   *)

\* terms the largest pool holds
MaxPool == 11
\* questions whose type is drawn on its own; the types repeat after them
TypeBits == 2
\* arrangements tried for the distractors and the options of one quiz
MaxPick == 1
\* Math.min(10, terms.length)
QuizSize == 10
\* .slice(0, 3)
DistractorCount == 3

MultipleChoice == "multiple-choice"
InputType == "input"

\* the catalog of the quiz: ids and display strings, pairwise distinct
QuizCatalog == [i \in 1..MaxPool |-> [id |-> i, term |-> <<LowerCase[i]>>]]

\* sizes of the pools: none, fewer than 4 terms, 4, a few more, more than 10
PoolSizes == {0, 1, 3, 4, 5, MaxPool}
QuizPools == {SubSeq(QuizCatalog, 1, n) : n \in PoolSizes}

\* an order a random sort may leave seq in: rotated by r, and reversed for the
\* upper half of the values of r
Arrange(seq, r) ==
    LET n == Len(seq)
        rotated == [i \in 1..n |-> seq[((i - 1 + r) % n) + 1]]
    IN  IF n = 0 THEN seq
        ELSE IF (r \div n) % 2 = 1
        THEN [i \in 1..n |-> rotated[n + 1 - i]]
        ELSE rotated

\* array.slice(0, n)
slice(seq, n) == SubSeq(seq, 1, Min(n, Len(seq)))

\* terms.filter(t => t.id !== term.id)
RECURSIVE OtherTerms(_, _)
OtherTerms(terms, term) ==
    IF terms = <<>> THEN <<>>
    ELSE IF Head(terms).id # term.id
         THEN <<Head(terms)>> \o OtherTerms(Tail(terms), term)
         ELSE OtherTerms(Tail(terms), term)

\* the distractors drawn from every term, the asked one included
Distractors_Unfiltered(terms, term, r) ==
    LET drawn == slice(Arrange(terms, r), DistractorCount)
    IN  [k \in 1..Len(drawn) |-> drawn[k].term]

\* the distractors of one question: other terms, shuffled, the first 3, by name
Distractors(terms, term, r) ==
    LET drawn == slice(Arrange(OtherTerms(terms, term), r), DistractorCount)
    IN  [k \in 1..Len(drawn) |-> drawn[k].term]

\* the k-th question
Question(terms, term, type, r) ==
    [term |-> term,
     type |-> type,
     options |-> IF type = MultipleChoice
                 THEN Arrange(Append(Distractors(terms, term, r), term.term),
                              r + term.id)
                 ELSE <<>>]

\* every shuffled term taken
Selected_All(shuffled) == shuffled

\* shuffled.slice(0, Math.min(10, terms.length))
Selected(shuffled) == slice(shuffled, Min(QuizSize, Len(shuffled)))

\* Math.random() > 0.5 of the k-th question
TypeOf(typeBits, k) ==
    IF (typeBits \div (2 ^ ((k - 1) % TypeBits))) % 2 = 1
    THEN MultipleChoice
    ELSE InputType

generateQuiz(order, typeBits, pick) ==
    /\ IF Len(quizTerms) = 0
       THEN UNCHANGED <<questions, currentIndex, score, showSummary, feedback,
                        inputAnswer, selectedOption, answered>>
       ELSE LET selected == Selected(Arrange(quizTerms, order))
            IN  /\ questions' =
                       [k \in 1..Len(selected) |->
                           Question(quizTerms, selected[k], TypeOf(typeBits, k),
                                    pick + k)]
                /\ currentIndex' = 0
                /\ score' = 0
                /\ showSummary' = FALSE
                /\ feedback' = Null
                /\ inputAnswer' = <<>>
                /\ selectedOption' = NoItem
                /\ answered' = 0
    /\ lastQuizOp' = [op |-> "generate"]
    /\ UNCHANGED <<appVars, card, lastCall, lastDue, lastCheck, lastDistance,
                   quizTerms, timers, now, rated>>

\* the Quiz mounted with some pool
InitQuiz ==
    /\ AppIdle
    /\ now = StartNow
    /\ rated = 0
    /\ card = Undefined
    /\ lastCall = NoCall
    /\ lastDue = NoCall
    /\ lastCheck = NoCall
    /\ lastDistance = NoCall
    /\ quizTerms \in QuizPools
    /\ questions = <<>>
    /\ PlayIdle

\* generateQuiz, on mount and from 'Retry', with what Math.random gives
GenerateQuiz ==
    \E order \in 0..(2 * Len(quizTerms)), typeBits \in 0..(2 ^ TypeBits - 1),
       pick \in 0..MaxPick :
        generateQuiz(order, typeBits, pick)

NextQuiz == GenerateQuiz

SpecQuiz == InitQuiz /\ [][NextQuiz]_vars

-----------------------------------------------------------------------------
(* The Quiz played, src/unnamed/part_000 lines 150-187 and the controls of *)
(* its view.  A pending setTimeout callback is the closure of the render   *)
(* that made it: the currentIndex and questions.length it will read.       *)

\* terms the largest pool of a played quiz holds
MaxPlayPool == 3
PlayPools == {SubSeq(QuizCatalog, 1, n) : n \in {0, 1, MaxPlayPool}}

\* texts typed into the input field: the term asked for, a wrong one, a blank
WrongAnswer == <<"z">>
BlankAnswer == <<" ">>

\* the view shows a question: not 'Loading Quiz...', not the summary
QuestionShown == Len(questions) > 0 /\ ~showSummary

\* const currentQ = questions[currentIndex]
currentQ == questions[currentIndex + 1]

\* the handlers grading whatever the feedback is
AlreadyGraded_Never == FALSE

\* if (feedback) return, lines 151 and 169
AlreadyGraded == feedback # Null

\* the test of nextQuestion, line 179
HasNextQuestion(index, length) == index < length - 1

\* nextQuestion of the render whose currentIndex is index and whose
\* questions.length is length
nextQuestion(index, length) ==
    IF HasNextQuestion(index, length)
    THEN /\ currentIndex' = currentIndex + 1
         /\ feedback' = Null
         /\ inputAnswer' = <<>>
         /\ selectedOption' = NoItem
         /\ UNCHANGED showSummary
    ELSE /\ showSummary' = TRUE
         /\ UNCHANGED <<currentIndex, feedback, inputAnswer, selectedOption>>

\* handleOptionClick(option); the test of line 151 is the handler's own, the
\* buttons are disabled while feedback is shown as well
handleOptionClick(option) ==
    /\ QuestionShown
    /\ currentQ.type = MultipleChoice
    /\ IF AlreadyGraded
       THEN UNCHANGED <<selectedOption, score, feedback, timers, answered>>
       ELSE LET isCorrect == option = currentQ.term.term
            IN  /\ selectedOption' = option
                /\ score' = IF isCorrect THEN score + 1 ELSE score
                /\ feedback' = IF isCorrect THEN "correct" ELSE "incorrect"
                /\ timers' = Append(timers, [index |-> currentIndex,
                                             length |-> Len(questions)])
                /\ answered' = answered + 1
    /\ lastQuizOp' = [op |-> "option", option |-> option, graded |-> ~AlreadyGraded]
    /\ UNCHANGED <<questions, currentIndex, showSummary, inputAnswer>>
    /\ UNCHANGED <<appVars, card, lastCall, lastDue, lastCheck, lastDistance,
                   quizTerms, now, rated>>

\* a click on one of the options of the question shown
OptionClicked ==
    /\ QuestionShown
    /\ \E k \in 1..Len(currentQ.options) : handleOptionClick(currentQ.options[k])

\* onChange of the input field, which is disabled while feedback is shown
setInputAnswer ==
    /\ QuestionShown
    /\ currentQ.type = InputType
    /\ feedback = Null
    /\ \E text \in {currentQ.term.term, WrongAnswer, BlankAnswer} :
           /\ text # inputAnswer
           /\ inputAnswer' = text
    /\ lastQuizOp' = [op |-> "type"]
    /\ UNCHANGED <<questions, currentIndex, score, showSummary, feedback,
                   selectedOption, timers, answered>>
    /\ UNCHANGED <<appVars, card, lastCall, lastDue, lastCheck, lastDistance,
                   quizTerms, now, rated>>

\* handleInputSubmit; 'Check Answer' is disabled while the trimmed text is
\* empty and is not rendered while feedback is shown
handleInputSubmit ==
    /\ QuestionShown
    /\ currentQ.type = InputType
    /\ IF AlreadyGraded
       THEN UNCHANGED <<score, feedback, answered>>
       ELSE /\ trim(inputAnswer) # <<>>
            /\ LET isCorrect == checkAnswerSmart(inputAnswer, currentQ.term.term)
               IN  /\ score' = IF isCorrect THEN score + 1 ELSE score
                   /\ feedback' = IF isCorrect THEN "correct" ELSE "incorrect"
                   /\ answered' = answered + 1
    /\ lastQuizOp' = [op |-> "submit", graded |-> ~AlreadyGraded]
    /\ UNCHANGED <<questions, currentIndex, showSummary, inputAnswer,
                   selectedOption, timers>>
    /\ UNCHANGED <<appVars, card, lastCall, lastDue, lastCheck, lastDistance,
                   quizTerms, now, rated>>

\* 'Next Question', rendered under the feedback of an input question
NextQuestionClicked ==
    /\ QuestionShown
    /\ currentQ.type = InputType
    /\ feedback # Null
    /\ nextQuestion(currentIndex, Len(questions))
    /\ lastQuizOp' = [op |-> "next"]
    /\ UNCHANGED <<questions, score, timers, answered>>
    /\ UNCHANGED <<appVars, card, lastCall, lastDue, lastCheck, lastDistance,
                   quizTerms, now, rated>>

\* the callback of setTimeout(() => nextQuestion(), 1500) runs
TimerFires ==
    /\ timers # <<>>
    /\ nextQuestion(Head(timers).index, Head(timers).length)
    /\ timers' = Tail(timers)
    /\ lastQuizOp' = [op |-> "timer"]
    /\ UNCHANGED <<questions, score, answered>>
    /\ UNCHANGED <<appVars, card, lastCall, lastDue, lastCheck, lastDistance,
                   quizTerms, now, rated>>

\* generateQuiz from the effect of the mount and from 'Try Again' of the summary
GeneratePlayed ==
    /\ questions = <<>> \/ showSummary
    /\ GenerateQuiz

\* the Quiz unmounted, by 'Back to Summary' or by the exit button of the App,
\* and a Quiz mounted later with some pool: its state is new, and a callback
\* left pending sets the state of a component that is gone
QuizRemounted ==
    /\ Len(questions) > 0
    /\ quizTerms' \in PlayPools
    /\ questions' = <<>>
    /\ currentIndex' = 0
    /\ score' = 0
    /\ showSummary' = FALSE
    /\ inputAnswer' = <<>>
    /\ feedback' = Null
    /\ selectedOption' = NoItem
    /\ timers' = <<>>
    /\ answered' = 0
    /\ lastQuizOp' = NoOp
    /\ UNCHANGED <<appVars, card, lastCall, lastDue, lastCheck, lastDistance,
                   now, rated>>

InitPlay ==
    /\ AppIdle
    /\ now = StartNow
    /\ rated = 0
    /\ card = Undefined
    /\ lastCall = NoCall
    /\ lastDue = NoCall
    /\ lastCheck = NoCall
    /\ lastDistance = NoCall
    /\ quizTerms \in PlayPools
    /\ questions = <<>>
    /\ PlayIdle

NextPlay ==
    \/ GeneratePlayed
    \/ OptionClicked
    \/ setInputAnswer
    \/ handleInputSubmit
    \/ NextQuestionClicked
    \/ TimerFires
    \/ QuizRemounted

SpecPlay == InitPlay /\ [][NextPlay]_vars

-----------------------------------------------------------------------------
(* Properties of the session *)

OnLastCard == Active /\ activeCardIndex = Len(sessionDeck) - 1

\* C1: a rating < 3 on the last card of the deck keeps the session Active:
\* the same term is appended, the deck grows by one, the session is not
\* Complete
C1_RecycleOnLastCard ==
    [][\A rating \in {1, 2} :
         (OnLastCard /\ handleRate(rating) /\ rated' = rated + 1)
         => /\ selectedChapter' # Null
            /\ sessionDeck' = Append(sessionDeck, sessionDeck[activeCardIndex + 1])
            /\ Len(sessionDeck') = Len(sessionDeck) + 1]_vars

\* C2: the session is never Complete while the most recent rating of some
\* term in it is < 3
C2_NoCompleteWhileFailed ==
    Complete => sessionFailed = {}

\* no term of the chapter is due: each has a record whose review date is
\* still ahead
NoneDue(chapterId) ==
    \A i \in 1..NumTerms :
        TERMS[i].chapterId = chapterId
        => (progress[i] # Undefined /\ now < progress[i].nextReviewDate)

\* C13: a start for the due cards of a chapter in which no term is due
\* reports it and leaves the session Idle: chapter, deck, cursor and start
\* time are unchanged
C13_NothingDueReported ==
    [][\A chapterId \in CHAPTERS :
         (Idle /\ NoneDue(chapterId) /\ startSession(chapterId, FALSE))
         => /\ alerts' = alerts + 1
            /\ selectedChapter' = Null
            /\ UNCHANGED <<selectedChapter, sessionDeck, activeCardIndex,
                           sessionStartTime>>]_vars

\* the report, for a chapter that has terms, all of them rated and not due
C13_Witness ==
    /\ lastOp.op = "alert" /\ lastOp.chapterId = "c1"
    /\ NoneDue("c1")
    /\ Idle /\ alerts = 1 /\ sessionDeck = <<>> /\ sessionStartTime = NullTime

\* the ids of the terms of a chapter, and of those of them that are due
ChapterIds(chapterId) == {i \in 1..NumTerms : TERMS[i].chapterId = chapterId}
DueIds(chapterId) ==
    {i \in ChapterIds(chapterId) :
        progress[i] = Undefined \/ ~(now < progress[i].nextReviewDate)}

\* the deck holds exactly the terms with these ids, each once, in the order
\* of the catalog
InCatalogOrder(deck, ids) ==
    /\ Len(deck) = Cardinality(ids)
    /\ \A k \in 1..Len(deck) :
          /\ deck[k].id \in ids
          /\ deck[k] = TERMS[deck[k].id]
          /\ \A j \in 1..(k - 1) : deck[j].id < deck[k].id

\* C14: a start puts the cursor at 0; the deck of a start for the due cards
\* is the due terms of the chapter (never-rated ones included), each once,
\* in catalog order; the deck of 'review all' is the whole chapter
C14_StartDeck ==
    [][\A chapterId \in CHAPTERS :
         /\ (Idle /\ startSession(chapterId, FALSE))
            => /\ activeCardIndex' = 0
               /\ InCatalogOrder(sessionDeck', DueIds(chapterId))
         /\ (Complete /\ chapterId = selectedChapter /\ startSession(chapterId, TRUE))
            => /\ activeCardIndex' = 0
               /\ InCatalogOrder(sessionDeck', ChapterIds(chapterId))]_vars

\* a deck of due cards that leaves out a rated term and keeps a new one
C14_Witness ==
    /\ lastOp.op = "start" /\ lastOp.forceAll = FALSE /\ lastOp.chapterId = "c1"
    /\ progress[1] # Undefined /\ progress[2] = Undefined
    /\ sessionDeck = <<TERMS[2]>> /\ activeCardIndex = 0

\* the terms of the deck are terms of the catalog, no two of them the same
DistinctTerms(deck) ==
    /\ \A k \in 1..Len(deck) : deck[k].id \in 1..NumTerms /\ deck[k] = TERMS[deck[k].id]
    /\ \A j, k \in 1..Len(deck) : j # k => deck[j].id # deck[k].id

C16_EmptyPoolRejected ==
    [][\A chapterId \in CHAPTERS :
         (ChapterTerms(chapterId) = <<>> /\ startSession(chapterId, TRUE))
         => /\ alerts' = alerts + 1
            /\ UNCHANGED <<selectedChapter, sessionDeck, activeCardIndex,
                           sessionStartTime>>]_vars

\* C17: every rating accepted in an active session leaves the stored progress
\* equal to the progress map, with the record the scheduler computed for the
\* rated term and every other record as it was; once a rating was given the
\* two stay equal through every later step
C17_RateIsPersisted ==
    [][/\ rated' > 0 => storedProgress' = progress'
       /\ \A rating \in CardRatings :
            (Active /\ handleRate(rating) /\ rated' = rated + 1)
            => LET term == sessionDeck[activeCardIndex + 1].id
               IN  /\ progress'[term] =
                          calculateNextReview(progress[term], rating, term, now)
                   /\ storedProgress'[term] = progress'[term]
                   /\ \A other \in 1..NumTerms \ {term} :
                          progress'[other] = progress[other]]_vars

\* a second rating in a session still going on, stored as it is in memory
C17_Witness ==
    /\ lastOp.op = "rate" /\ lastOp.view = "Active"
    /\ rated = 2 /\ Active
    /\ progress[lastOp.term] # Undefined
    /\ progress[lastOp.term].repetition = IF lastOp.rating < 3 THEN 0 ELSE 1
    /\ storedProgress = progress

\* C18: a session that ends, by the rating that completes it or by Exit from
\* the card view, adds the time from its start to that instant to the study
\* time, in memory and in the stored item; Exit leaves the app idle with an
\* empty deck and the cursor at 0
C18_ElapsedAccounted ==
    [][/\ (/\ Active
           /\ \/ exitSession
              \/ \E rating \in CardRatings :
                    handleRate(rating) /\ rated' = rated + 1 /\ ~(Active'))
          => /\ sessionStartTime # NullTime
             /\ totalStudyTime' = totalStudyTime + (now - sessionStartTime)
             /\ storedTime' = totalStudyTime'
             /\ sessionStartTime' = NullTime
       /\ (Active /\ exitSession)
          => /\ Idle'
             /\ sessionDeck' = <<>>
             /\ activeCardIndex' = 0]_vars

\* a second session left by Exit from the card view after time went by: the
\* study time holds the first session's time and this one's
C18_Witness ==
    /\ lastOp.op = "exit" /\ lastOp.view = "Active"
    /\ Idle /\ sessionDeck = <<>> /\ activeCardIndex = 0
    /\ currentSessionDuration > 0
    /\ totalStudyTime > currentSessionDuration
    /\ storedTime = totalStudyTime
    /\ sessionStartTime = NullTime

\* C19: the study time is increased once for each started session: the
\* sessions started and not yet added to it number one while cards are shown
\* and none otherwise, so no session is added twice (Exit from the summary
\* view adds nothing) and none is left out
C19_AddedOncePerSession ==
    /\ unaccounted = IF Active THEN 1 ELSE 0
    /\ Active <=> sessionStartTime # NullTime

\* Exit from the summary view of the one session held, which took some but
\* not all of the time gone by: the study time is that session's time
C19_Witness ==
    /\ lastOp.op = "exit" /\ lastOp.view = "Complete"
    /\ Idle /\ unaccounted = 0
    /\ currentSessionDuration > 0
    /\ totalStudyTime = currentSessionDuration
    /\ storedTime = totalStudyTime
    /\ now - StartNow > totalStudyTime

\* C20: while cards are shown a rating never removes, replaces or reorders
\* the cards of the deck: a rating < 3 appends the rated term after them, a
\* rating >= 3 leaves the deck as it is, and the cursor advances by one (the
\* rating >= 3 of the last card, which completes the session, set aside)
C20_QueueIsAppendOnly ==
    [][\A rating \in CardRatings :
         (/\ Active
          /\ handleRate(rating) /\ rated' = rated + 1
          /\ ~(OnLastCard /\ rating >= 3))
         => /\ sessionDeck' =
                   IF rating < 3
                   THEN Append(sessionDeck, sessionDeck[activeCardIndex + 1])
                   ELSE sessionDeck
            /\ activeCardIndex' = activeCardIndex + 1]_vars

\* C21: a rating >= 3 on the last card of the deck completes the session:
\* the deck is emptied, the cursor is back at 0 and the chapter stays
\* selected, so the summary is shown; a rating on a card that is not the last
\* leaves the session active
C21_CompletesOnLastPass ==
    [][\A rating \in CardRatings :
         (Active /\ handleRate(rating) /\ rated' = rated + 1)
         => /\ (OnLastCard /\ rating >= 3)
               => /\ Complete'
                  /\ sessionDeck' = <<>>
                  /\ activeCardIndex' = 0
                  /\ selectedChapter' = selectedChapter
            /\ ~OnLastCard => Active']_vars

\* the summary after both cards of a chapter were passed, one after the other
C21_Witness ==
    /\ lastOp.op = "rate" /\ lastOp.view = "Active" /\ lastOp.rating >= 3
    /\ rated = 2 /\ sessionFailed = {}
    /\ Complete /\ selectedChapter = "c1" /\ activeCardIndex = 0
    /\ \A i \in 1..NumTerms :
          TERMS[i].chapterId = "c1" => progress[i] # Undefined

-----------------------------------------------------------------------------
(* Properties of the answer check *)

Range(seq) == {seq[k] : k \in 1..Len(seq)}

\* what an answer may match: the term, each text in parentheses, the term
\* without them, each part between slashes, all normalized
Listed(correctTerm) ==
    {normalize(correctTerm), normalize(withoutParens(correctTerm))}
    \cup {normalize(segment) : segment \in Range(inParens(correctTerm))}
    \cup {normalize(part) : part \in Range(split(correctTerm, "/"))}

\* user is within a quarter of the length of cand, cand longer than 3
Near(user, cand) ==
    /\ Len(cand) > 3
    /\ getLevenshteinDistance(user, cand) <= Len(cand) \div 4

Checked == lastCheck.called
User == normalize(lastCheck.input)

\* C22: an answer that is none of the listed strings and is near none of
\* them is rejected
C22_RejectsUnlisted ==
    Checked
    => ((/\ User \notin Listed(lastCheck.correctTerm)
         /\ \A cand \in Listed(lastCheck.correctTerm) : ~Near(User, cand))
        => lastCheck.result = FALSE)

\* "xyz" for "Object Oriented Programming"
C22_Witness ==
    /\ Checked
    /\ lastCheck.input = Typed_xyz
    /\ lastCheck.correctTerm = ObjectOrientedProgramming
    /\ lastCheck.result = FALSE

\* C23, as the specification states it: for a term of at most 3 normalized
\* characters an answer is accepted exactly when its normalized form is one of
\* the listed strings
C23_Original ==
    (Checked /\ Len(normalize(lastCheck.correctTerm)) <= 3)
    => (lastCheck.result = TRUE <=> User \in Listed(lastCheck.correctTerm))

\* C23, amended: for a term of at most 3 normalized characters an answer is
\* accepted exactly when its normalized form is not empty and is one of the
\* listed strings
C23_ShortExactOnly ==
    (Checked /\ Len(normalize(lastCheck.correctTerm)) <= 3)
    => (lastCheck.result = TRUE
        <=> (User # <<>> /\ User \in Listed(lastCheck.correctTerm)))

\* "rm" for "RAM", one edit away, rejected
C23_Witness ==
    /\ Checked
    /\ lastCheck.correctTerm = RandomAccessMemory
    /\ lastCheck.input = <<"r", "m">>
    /\ getLevenshteinDistance(User, normalize(RandomAccessMemory)) = 1
    /\ lastCheck.result = FALSE

\* C24: an answer near any one of the listed strings longer than 3 is
\* accepted, whichever of them it is
C24_AcceptsNear ==
    Checked
    => \A cand \in Listed(lastCheck.correctTerm) :
           Near(User, cand) => lastCheck.result = TRUE

\* "objct oriented programming" for "Object Oriented Programming"
C24_Witness ==
    /\ Checked
    /\ lastCheck.input = Typed_objct
    /\ lastCheck.correctTerm = ObjectOrientedProgramming
    /\ User \notin Listed(lastCheck.correctTerm)
    /\ lastCheck.result = TRUE

\* C25: an answer whose normalized form is not empty and is one of the listed
\* strings is accepted
C25_AcceptsListed ==
    (Checked /\ User # <<>> /\ User \in Listed(lastCheck.correctTerm))
    => lastCheck.result = TRUE

\* "ide" for "Integrated Development Environment (IDE)"
C25_Witness ==
    /\ Checked
    /\ lastCheck.input = Typed_ide
    /\ lastCheck.correctTerm = IntegratedDevelopmentEnvironment
    /\ User # normalize(lastCheck.correctTerm)
    /\ lastCheck.result = TRUE

\* C26: an answer whose normalized form is empty is rejected, whatever the
\* term
C26_RejectsEmpty ==
    (Checked /\ User = <<>>) => lastCheck.result = FALSE

\* "?" for "&&", both empty once normalized
C26_Witness ==
    /\ Checked
    /\ lastCheck.input = Typed_mark
    /\ lastCheck.correctTerm = LogicalAnd
    /\ normalize(lastCheck.correctTerm) = User
    /\ lastCheck.result = FALSE

-----------------------------------------------------------------------------
(* Properties of the question generator *)

\* the display strings of the pool
PoolNames == {quizTerms[k].term : k \in 1..Len(quizTerms)}

\* C27: a multiple-choice question over a pool of at least 4 terms with
\* distinct names has exactly 4 options: the name of its term once and the
\* names of 3 other terms of the pool, no two the same
C27_FourOptions ==
    (/\ Len(quizTerms) >= 4
     /\ Cardinality(PoolNames) = Len(quizTerms))
    => \A q \in 1..Len(questions) :
           questions[q].type = MultipleChoice
           => LET options == questions[q].options
                  name == questions[q].term.term
              IN  /\ Len(options) = 4
                  /\ Cardinality({k \in 1..4 : options[k] = name}) = 1
                  /\ Cardinality(Range(options)) = 4
                  /\ Range(options) \subseteq PoolNames

\* a quiz over 4 terms with a multiple-choice question and a free-text one
C27_Witness ==
    /\ Len(quizTerms) = 4 /\ Len(questions) = 4
    /\ \E q \in 1..Len(questions) : questions[q].type = InputType
    /\ \E q \in 1..Len(questions) :
          /\ questions[q].type = MultipleChoice
          /\ Len(questions[q].options) = 4
          /\ questions[q].options[1] # questions[q].term.term

\* C28: a generated quiz has min(10, size of the pool) questions, each on a
\* term of the pool, no two on the same term, and the free-text ones have no
\* options
C28_QuizSize ==
    questions # <<>>
    => /\ Len(questions) = IF Len(quizTerms) < 10 THEN Len(quizTerms) ELSE 10
       /\ \A q \in 1..Len(questions) :
              /\ \E k \in 1..Len(quizTerms) : quizTerms[k] = questions[q].term
              /\ \A p \in 1..Len(questions) :
                     p # q => questions[p].term.id # questions[q].term.id
              /\ questions[q].type = InputType => questions[q].options = <<>>

\* a quiz of 10 questions over a pool of more than 10 terms
C28_Witness ==
    /\ Len(quizTerms) > 10
    /\ Len(questions) = 10
    /\ \E q \in 1..Len(questions) : questions[q].type = InputType
    /\ \E q \in 1..Len(questions) : questions[q].type = MultipleChoice

-----------------------------------------------------------------------------
(* Properties of the scheduler and of the session, continued *)

\* C29: the record calculateNextReview returns depends on its arguments
\* alone: the call made again with the same previous record, rating and term
\* returns the record it returned before
C29_SameArgumentsSameRecord ==
    [][ReviewRepeated => card' = card]_vars

\* C30: a rating given while no chapter is selected, or while the deck is
\* empty, changes nothing: progress, the stored progress, deck, cursor,
\* session start time and study time stay as they are
C30_RateOutsideSessionIgnored ==
    [][\A rating \in CardRatings :
         ((selectedChapter = Null \/ sessionDeck = <<>>) /\ handleRate(rating))
         => UNCHANGED <<progress, storedProgress, storedTime, sessionDeck,
                        activeCardIndex, sessionStartTime, totalStudyTime,
                        selectedChapter>>]_vars

\* a rating given on the summary of a session, a card of which was rated and
\* stored before
C30_Witness ==
    /\ lastOp.op = "rate" /\ lastOp.view = "Complete"
    /\ Complete /\ activeCardIndex = 0 /\ sessionStartTime = NullTime
    /\ rated = 1
    /\ storedProgress = progress
    /\ totalStudyTime > 0 /\ storedTime = totalStudyTime

\* C31: the progress map changes only by a rating given in the card view, and
\* then only in the record of the term under the cursor; starting a session,
\* leaving it, the quiz switch and the clock leave it as it is
C31_ProgressOnlyByRate ==
    [][/\ progress' # progress
          => /\ Active
             /\ \E rating \in CardRatings : handleRate(rating)
             /\ \A t \in 1..NumTerms :
                    t # sessionDeck[activeCardIndex + 1].id
                    => progress'[t] = progress[t]
       /\ (\/ exitSession \/ StartDue \/ ReviewAgain \/ startMixedSession
           \/ setMixedCount \/ setQuizActive)
          => progress' = progress]_vars

\* a mixed session started after a session in which one term was rated: that
\* term's record is there, the other term still has none
C31_Witness ==
    /\ lastOp.op = "mixed" /\ Active
    /\ rated = 1
    /\ \E t \in 1..NumTerms :
          /\ progress[t] # Undefined
          /\ \A u \in 1..NumTerms \ {t} : progress[u] = Undefined
    /\ storedProgress = progress

-----------------------------------------------------------------------------
(* Properties of the distance *)

\* the least number of insertions, deletions and substitutions of one
\* character that turn a into b
RECURSIVE EditDistance(_, _)
EditDistance(a, b) ==
    IF a = <<>> THEN Len(b)
    ELSE IF b = <<>> THEN Len(a)
    ELSE IF Head(a) = Head(b) THEN EditDistance(Tail(a), Tail(b))
    ELSE LET costs == {EditDistance(Tail(a), b), EditDistance(a, Tail(b)),
                       EditDistance(Tail(a), Tail(b))}
         IN  1 + CHOOSE m \in costs : \A n \in costs : m <= n

\* C32: getLevenshteinDistance(a, b) is the unit-cost edit distance of a and
\* b: 0 exactly when they are equal, the same with the arguments exchanged,
\* and the length of the other word when one is empty
C32_IsEditDistance ==
    lastDistance.called
    => LET a == lastDistance.a
           b == lastDistance.b
           d == lastDistance.result
       IN  /\ d = EditDistance(a, b)
           /\ d = 0 <=> a = b
           /\ d = getLevenshteinDistance(b, a)
           /\ a = <<>> => d = Len(b)
           /\ b = <<>> => d = Len(a)

\* "abc" and "ca": a deletion and two more edits
C32_Witness ==
    /\ lastDistance.called
    /\ lastDistance.a = <<"a", "b", "c">>
    /\ lastDistance.b = <<"c", "a">>
    /\ lastDistance.result = 3

-----------------------------------------------------------------------------
(* Invariants of the session *)

\* C33: while a chapter is selected and the deck is not empty the cursor is
\* the index of a card of the deck; otherwise the cursor is 0 and the deck is
\* empty
C33_CursorInDeck ==
    /\ (selectedChapter # Null /\ Len(sessionDeck) > 0)
       => (0 <= activeCardIndex /\ activeCardIndex < Len(sessionDeck))
    /\ (selectedChapter = Null \/ Len(sessionDeck) = 0)
       => (activeCardIndex = 0 /\ sessionDeck = <<>>)

\* the cursor on the last card of a deck that grew by a failed card
C33_Witness ==
    /\ Active /\ lastOp.op = "rate"
    /\ Len(sessionDeck) = 3
    /\ activeCardIndex = 2
    /\ sessionDeck[3] = sessionDeck[1]

\* C34: a session start time is recorded exactly while cards are shown; a
\* step that records one starts a session at the instant of the step
C34_StartTimeIffActive ==
    [][/\ Active <=> sessionStartTime # NullTime
       /\ Active' <=> sessionStartTime' # NullTime
       /\ (sessionStartTime' # NullTime /\ ~Active)
          => sessionStartTime' = now]_vars

\* the chapter reviewed again from its summary, later than the first start
C34_Witness ==
    /\ lastOp.op = "start" /\ lastOp.forceAll = TRUE /\ lastOp.view = "Complete"
    /\ Active
    /\ sessionStartTime = now /\ now > StartNow
    /\ totalStudyTime > 0

-----------------------------------------------------------------------------
(* The records of a term rated from its first review on *)

\* C35: the record of a term rated from an empty store has interval 1 at
\* repetition 0, interval 1 or 4 at repetition 1 and an interval of at least
\* 6 from repetition 2 on; its interval is never 0
C35_IntervalByRepetition ==
    card # Undefined
    => /\ card.repetition = 0 => card.interval = 1
       /\ card.repetition = 1 => card.interval \in {1, 4}
       /\ card.repetition >= 2 => card.interval >= 6
       /\ card.interval # 0

\* a term failed, then passed three times: repetition 3, interval above 6
C35_Witness ==
    /\ lastCall.called /\ rated = 4
    /\ card.repetition = 3
    /\ card.interval > 6
    /\ card.efactor < DefaultEfactor

\* C38: a passing rating of a record reached from an empty store gives an
\* interval no shorter than the interval of the record, and a longer one once
\* the record has repetition 2 or more
C38_PassNeverShortens ==
    /\ card # Undefined
       => \A rating \in 3..5 :
              LET next == NewInterval(card.repetition, card.interval,
                                      card.efactor, rating)
              IN  /\ next >= card.interval
                  /\ card.repetition >= 2 => next > card.interval
    /\ (lastCall.called /\ lastCall.rating >= 3)
       => /\ card.interval >= PrevInterval
          /\ PrevRepetition >= 2 => card.interval > PrevInterval

\* a record at the lowest efactor, repetition 2 and interval 6, passed: 8 days
C38_Witness ==
    /\ lastCall.called /\ lastCall.rating = 3
    /\ PrevRepetition = 2 /\ PrevInterval = 6 /\ PrevEfactor = MinEfactor
    /\ card.interval = 8

\* C36: the record a rating stores is not due at the instant of the rating
\* nor at any instant less than one day later; a chapter whose terms have all
\* been rated less than one day ago has nothing due, and startSession on it
\* alerts and starts no session
C36_RatedNotDueWithinADay ==
    [][/\ \A rating \in CardRatings :
              (handleRate(rating) /\ Active)
              => LET stored == progress'[sessionDeck[activeCardIndex + 1].id]
                 IN  /\ ~isDue(stored, now)
                     /\ ~isDue(stored, now + HalfDay)
                     /\ ~isDue(stored, now + oneDay - 1)
       /\ \A chapterId \in CHAPTERS :
              (/\ startSession(chapterId, FALSE)
               /\ now < StartNow + oneDay
               /\ \A t \in 1..NumTerms :
                      TERMS[t].chapterId = chapterId => progress[t] # Undefined)
              => /\ DueDeck(chapterId) = <<>>
                 /\ alerts' = alerts + 1
                 /\ UNCHANGED <<selectedChapter, sessionDeck, activeCardIndex,
                                sessionStartTime>>]_vars

\* every term of chapter c1 rated, the session left, and the chapter asked
\* for again half a day after the first instant: nothing is due
C36_Witness ==
    /\ lastOp.op = "alert" /\ lastOp.chapterId = "c1"
    /\ \A t \in 1..NumTerms : TERMS[t].chapterId = "c1" => progress[t] # Undefined
    /\ rated >= 2
    /\ now = StartNow + HalfDay
    /\ Idle

-----------------------------------------------------------------------------
(* The length of a session *)

\* the cards of the deck not yet rated, the one shown included
Remaining == Len(sessionDeck) - activeCardIndex

\* C37: a rating of 3 or more in a session takes one card off the cards that
\* remain and completes the session when it was the only one, so that a
\* session rated 3 or more from some state on completes after as many ratings
\* as cards remained; and a session that is complete has had as many ratings
\* as its deck had cards at its start plus the cards appended to it since
C37_RatingsOfASession ==
    [][/\ \A rating \in CardRatings :
              (handleRate(rating) /\ Active /\ rating >= 3)
              => /\ tally'.rates = tally.rates + 1
                 /\ IF Remaining = 1
                    THEN Complete'
                    ELSE Active' /\ Remaining' = Remaining - 1
       /\ Complete' => tally'.rates = tally'.initial + tally'.appended]_vars

\* a deck of two cards, the first failed and appended, then three passes
C37_Witness ==
    /\ Complete /\ lastOp.op = "rate" /\ lastOp.rating >= 3
    /\ tally = [initial |-> 2, rates |-> 3, appended |-> 1]

-----------------------------------------------------------------------------
(* Properties of the Quiz played *)

\* the score, the questions graded, the index and the summary of a quiz
QuizCounts ==
    /\ 0 <= score /\ score <= answered /\ answered <= Len(questions)
    /\ 0 <= currentIndex
    /\ Len(questions) > 0 => currentIndex <= Len(questions) - 1
    /\ showSummary => (Len(questions) > 0 /\ answered = Len(questions))

\* C39: a question is graded at most once: a click or a submit while feedback
\* is shown changes nothing, and a grading is of the question shown, not yet
\* graded; so 0 <= score <= questions graded <= questions, the index is at
\* most that of the last question, and the summary is shown only when every
\* question has been graded
C39_GradedAtMostOnce ==
    [][/\ QuizCounts /\ QuizCounts'
       /\ (feedback # Null /\ QuestionShown
           /\ (handleInputSubmit
               \/ \E k \in 1..Len(currentQ.options) :
                      handleOptionClick(currentQ.options[k])))
          => UNCHANGED <<questions, currentIndex, score, showSummary, inputAnswer,
                         feedback, selectedOption, timers, answered>>
       /\ answered' # answered
          => \/ answered' = 0
             \/ /\ answered' = answered + 1
                /\ answered = currentIndex
                /\ feedback = Null /\ feedback' # Null
                /\ score' \in {score, score + 1}
       /\ score' # score => (score' = 0 \/ answered' = answered + 1)]_vars

\* a click on an option while the feedback of the question is shown
C39_Witness ==
    /\ lastQuizOp.op = "option" /\ lastQuizOp.graded = FALSE
    /\ feedback = "incorrect"
    /\ currentIndex = 1 /\ answered = 2 /\ score = 1
    /\ Len(questions) = 3
    /\ Len(timers) = 1

====
